---- MODULE Spec2Model ----
(***************************************************************************)
(* A model of src/app.py: the FlightScope session browser driver           *)
(* (get_driver, login_to_flightscope, fetch_session_list,                  *)
(* process_batch_downloads) and the tabular normalizer                     *)
(* (clean_flightscope_data, parse_directional).                            *)
(*                                                                         *)
(* Python strings are sequences of one-character strings, so that split,   *)
(* strip, endswith, re.sub and float are computed, not assumed.            *)
(***************************************************************************)
EXTENDS Integers, Sequences, FiniteSets, TLC

VARIABLES
    pc,                 \* position of the running operation
    op,                 \* the operation running, or that ran last
    runs,               \* operations started so far
    open,               \* browser instances created and not yet quit
    authed,             \* the current browser is past the login page
    logins,             \* calls of login_to_flightscope in the current operation
    loginFailed,        \* login_to_flightscope raised in the current operation
    selected_sessions,  \* argument of process_batch_downloads
    idx,                \* 1-based position of the for loop over selected_sessions
    downloads,          \* DOWNLOAD_DIR: its files, oldest creation time first
    pending,            \* exports triggered whose file has not landed yet
    master_df,          \* the merged table under construction
    warnings,           \* st.warning calls of the current operation
    errors,             \* st.error calls of the current operation
    result,             \* what the last operation returned
    outcome,            \* per session of the batch: how its iteration ended
    readFile,           \* per session of the batch: the file it chose as latest
    listing,            \* the remote sessions listing of the current fetch
    val,                \* parse_directional: its argument
    parsed,             \* parse_directional: its return value
    df,                 \* clean_flightscope_data: its argument
    cleaned,            \* clean_flightscope_data: its return value
    recleaned           \* clean_flightscope_data: its return value on cleaned

driverVars == <<pc, op, runs, open, authed, logins, loginFailed, selected_sessions, idx,
                downloads, pending, master_df, warnings, errors, result, outcome,
                readFile, listing>>
cleanVars == <<val, parsed, df, cleaned, recleaned>>
vars == <<driverVars, cleanVars>>

(***************************************************************************)
(* Bounds of the model.                                                    *)
(***************************************************************************)
MaxRuns == 2
MaxBatch == 2
MaxListing == 2

\* rows[:20] in fetch_session_list
ListLimit == 20

(***************************************************************************)
(* Sequence helpers.                                                       *)
(***************************************************************************)
RECURSIVE SeqsUpTo(_, _)
\* the sequences over S of length at most n
SeqsUpTo(S, n) == IF n = 0 THEN {<<>>} ELSE [1..n -> S] \cup SeqsUpTo(S, n - 1)

Min(a, b) == IF a < b THEN a ELSE b

RECURSIVE SelectIdx(_, _, _)
\* the subsequence of s at the positions in keep, order kept
SelectIdx(s, keep, i) ==
    IF i > Len(s) THEN <<>>
    ELSE (IF i \in keep THEN <<s[i]>> ELSE <<>>) \o SelectIdx(s, keep, i + 1)

(***************************************************************************)
(* Python string operations used by the driver.                            *)
(***************************************************************************)
Whitespace == {" ", "\n"}

RECURSIVE LStrip(_)
LStrip(s) == IF s # <<>> /\ Head(s) \in Whitespace THEN LStrip(Tail(s)) ELSE s

RECURSIVE RStrip(_)
RStrip(s) ==
    IF s # <<>> /\ s[Len(s)] \in Whitespace THEN RStrip(SubSeq(s, 1, Len(s) - 1)) ELSE s

\* str.strip()
Strip(s) == RStrip(LStrip(s))

RECURSIVE SplitHead(_, _)
\* s.split(ch)[0]: the text before the first ch
SplitHead(s, ch) ==
    IF s = <<>> \/ Head(s) = ch THEN <<>> ELSE <<Head(s)>> \o SplitHead(Tail(s), ch)

\* s.replace("\n", " ")
ReplaceNewline(s) == [i \in 1..Len(s) |-> IF s[i] = "\n" THEN " " ELSE s[i]]

(***************************************************************************)
(* The remote site: listing rows a session handle can come from.           *)
(***************************************************************************)
Catalogue ==
    { [date |-> <<"a">>, name |-> <<"x">>, url |-> 1],
      [date |-> <<"a">>, name |-> <<"y">>, url |-> 2],
      [date |-> <<"b", "\n", "c">>, name |-> <<"x", "|", "y">>, url |-> 3] }

\* the number of data rows of the CSV the site exports for a detail page
ExportRows(url) == url - 1

\* the session dict built from one listing row
SessionHandle(row) ==
    LET raw_date == ReplaceNewline(row.date)
    IN  [display |-> raw_date \o <<" ", "|", " ">> \o row.name,
         date_only |-> Strip(SplitHead(raw_date, "|")),
         url |-> row.url]

Handles == {SessionHandle(row) : row \in Catalogue}

\* session['display'].split("|")[0].strip()
SessionDate(session) == Strip(SplitHead(session.display, "|"))

(***************************************************************************)
(* Cell values of a table: a Python str, a finite float m * 10^-e, or the  *)
(* missing-value marker NaN that pandas puts in an empty cell.             *)
(***************************************************************************)
RECURSIVE Normal(_, _)
\* one representative per number: no trailing zero in the fraction
Normal(m, e) == IF e > 0 /\ m % 10 = 0 THEN Normal(m \div 10, e - 1) ELSE <<m, e>>

Str(s) == [t |-> "str", s |-> s, m |-> 0, e |-> 0]
Num(m, e) == [t |-> "num", s |-> <<>>, m |-> Normal(m, e)[1], e |-> Normal(m, e)[2]]
NaN == [t |-> "nan", s |-> <<>>, m |-> 0, e |-> 0]

\* unary minus on a float
Neg(x) == Num(0 - x.m, x.e)

(***************************************************************************)
(* float(str) on the texts re.sub can leave: an optional leading '-', then *)
(* digits with at most one '.', and at least one digit.                    *)
(***************************************************************************)
Digits == {"0", "1", "2", "3", "4", "5", "6", "7", "8", "9"}

DigitVal(c) ==
    CASE c = "0" -> 0 [] c = "1" -> 1 [] c = "2" -> 2 [] c = "3" -> 3 [] c = "4" -> 4
      [] c = "5" -> 5 [] c = "6" -> 6 [] c = "7" -> 7 [] c = "8" -> 8 [] c = "9" -> 9

\* re.sub(r'[^...]', '', s): the characters of s that are in keep
ReSubKeep(s, keep) == SelectSeq(s, LAMBDA c : c \in keep)

Unsigned(s) == IF s # <<>> /\ Head(s) = "-" THEN Tail(s) ELSE s

\* float(s) does not raise
FloatOk(s) ==
    LET u == Unsigned(s)
    IN  /\ \A i \in 1..Len(u) : u[i] \in Digits \cup {"."}
        /\ Len(ReSubKeep(u, {"."})) <= 1
        /\ ReSubKeep(u, Digits) # <<>>

RECURSIVE DigitsValue(_)
DigitsValue(d) ==
    IF d = <<>> THEN 0 ELSE 10 * DigitsValue(SubSeq(d, 1, Len(d) - 1)) + DigitVal(d[Len(d)])

\* the number of digits after the '.'
FractionLen(u) ==
    IF \E i \in 1..Len(u) : u[i] = "."
    THEN Len(u) - (CHOOSE i \in 1..Len(u) : u[i] = ".")
    ELSE 0

\* float(s), where FloatOk(s)
Float(s) ==
    LET u == Unsigned(s)
        mag == DigitsValue(ReSubKeep(u, Digits))
    IN  Num(IF u # s THEN 0 - mag ELSE mag, FractionLen(u))

(***************************************************************************)
(* parse_directional.                                                      *)
(***************************************************************************)
EndsWith(s, c) == s # <<>> /\ s[Len(s)] = c

\* parse_directional with the sign of the L suffix forgotten
parse_directionalUnsigned(v) ==
    IF v.t # "str" THEN v
    ELSE LET stripped == Strip(v.s)
         IN  IF EndsWith(stripped, "L") \/ EndsWith(stripped, "R")
             THEN LET text == ReSubKeep(stripped, Digits \cup {"."})
                  IN  IF FloatOk(text) THEN Float(text) ELSE Num(0, 0)
             ELSE LET clean_val == ReSubKeep(stripped, Digits \cup {".", "-"})
                  IN  IF clean_val = <<>> THEN Num(0, 0)
                      ELSE IF FloatOk(clean_val) THEN Float(clean_val)
                      ELSE Str(stripped)

\* parse_directional with the L branch returning the signed text, not the
\* number
parse_directionalSignedText(v) ==
    IF v.t # "str" THEN v
    ELSE LET stripped == Strip(v.s)
         IN  IF EndsWith(stripped, "L")
             THEN LET text == ReSubKeep(stripped, Digits \cup {"."})
                  IN  IF FloatOk(text) THEN Str(<<"-">> \o text) ELSE Num(0, 0)
             ELSE IF EndsWith(stripped, "R")
             THEN LET text == ReSubKeep(stripped, Digits \cup {"."})
                  IN  IF FloatOk(text) THEN Float(text) ELSE Num(0, 0)
             ELSE LET clean_val == ReSubKeep(stripped, Digits \cup {".", "-"})
                  IN  IF clean_val = <<>> THEN Num(0, 0)
                      ELSE IF FloatOk(clean_val) THEN Float(clean_val)
                      ELSE Str(stripped)

parse_directional(v) ==
    IF v.t # "str" THEN v
    ELSE LET stripped == Strip(v.s)
         IN  IF EndsWith(stripped, "L")
             THEN LET text == ReSubKeep(stripped, Digits \cup {"."})
                  IN  IF FloatOk(text) THEN Neg(Float(text)) ELSE Num(0, 0)
             ELSE IF EndsWith(stripped, "R")
             THEN LET text == ReSubKeep(stripped, Digits \cup {"."})
                  IN  IF FloatOk(text) THEN Float(text) ELSE Num(0, 0)
             ELSE LET clean_val == ReSubKeep(stripped, Digits \cup {".", "-"})
                  IN  IF clean_val = <<>> THEN Num(0, 0)
                      ELSE IF FloatOk(clean_val) THEN Float(clean_val)
                      ELSE Str(stripped)

(***************************************************************************)
(* clean_flightscope_data.  A table is its column names and its rows, each *)
(* row a function from the column names to cell values.  The degree sign   *)
(* of the source's column names is written (deg).                          *)
(***************************************************************************)
SummaryMarkers ==
    { Str(<<"A", "v", "g">>), Str(<<"D", "e", "v">>),
      Str(<<"A", "v", "e", "r", "a", "g", "e">>),
      Str(<<"D", "e", "v", "i", "a", "t", "i", "o", "n">>) }

directional_cols ==
    { "Swing H (deg)", "Lateral (yds)", "Spin Axis (deg)", "Club Path (deg)",
      "Launch H (deg)", "FTP (deg)", "FTT (deg)" }

\* a row filter that compares with the first marker only
DropSummaryRowsAvgOnly(table) ==
    IF "Shot" \in table.cols
    THEN [table EXCEPT !.rows = SelectSeq(table.rows,
                                          LAMBDA r : r["Shot"] # Str(<<"A", "v", "g">>))]
    ELSE table

\* df[~df['Shot'].isin([...])] when there is a 'Shot' column
DropSummaryRows(table) ==
    IF "Shot" \in table.cols
    THEN [table EXCEPT !.rows = SelectSeq(table.rows,
                                          LAMBDA r : r["Shot"] \notin SummaryMarkers)]
    ELSE table

\* a cleaning that returns the directional columns only
ParseColumnsDirectionalOnly(table) ==
    [cols |-> table.cols \cap directional_cols,
     rows |-> [i \in 1..Len(table.rows) |->
                  [c \in table.cols \cap directional_cols |->
                      parse_directional(table.rows[i][c])]]]

\* a cleaning that applies parse_directional to every column
ParseColumnsEverywhere(table) ==
    [table EXCEPT !.rows =
        [i \in 1..Len(table.rows) |->
            [c \in table.cols |-> parse_directional(table.rows[i][c])]]]

\* df[col] = df[col].apply(parse_directional) for the directional columns
\* the table has
ParseColumns(table) ==
    [table EXCEPT !.rows =
        [i \in 1..Len(table.rows) |->
            [c \in table.cols |->
                IF c \in directional_cols
                THEN parse_directional(table.rows[i][c])
                ELSE table.rows[i][c]]]]

clean_flightscope_data(table) == ParseColumns(DropSummaryRows(table))

(***************************************************************************)
(* State of the driver before any operation has run.  DOWNLOAD_DIR is a    *)
(* fixed path under /tmp that outlives the process, so it may already hold *)
(* a file of an earlier process.  A file that no export of the running     *)
(* batch produced has src 0; it stands for any such file and has one row.  *)
(***************************************************************************)
StaleFile == [src |-> 0, n |-> 1]

NoFile == [src |-> 0 - 1, n |-> 0]

NoResult == [kind |-> "none", val |-> <<>>]

NoListing == [rendered |-> FALSE, rows |-> <<>>]

DriverInit ==
    /\ pc = "idle"
    /\ op = "none"
    /\ runs = 0
    /\ open = 0
    /\ authed = FALSE
    /\ logins = 0
    /\ loginFailed = "none"
    /\ selected_sessions = <<>>
    /\ idx = 1
    /\ downloads \in {<<>>, <<StaleFile>>}
    /\ pending = {}
    /\ master_df = <<>>
    /\ warnings = <<>>
    /\ errors = <<>>
    /\ result = NoResult
    /\ outcome = <<>>
    /\ readFile = <<>>
    /\ listing = NoListing

None == [t |-> "none", s |-> <<>>, m |-> 0, e |-> 0]

EmptyTable == [cols |-> {}, rows |-> <<>>]

NotCleaned == [done |-> FALSE, table |-> EmptyTable]

\* the normalizer is not in use
CleanIdle ==
    /\ val = None
    /\ parsed = None
    /\ df = EmptyTable
    /\ cleaned = NotCleaned
    /\ recleaned = NotCleaned

Init == DriverInit /\ CleanIdle

(***************************************************************************)
(* get_driver.  webdriver.Chrome(...) starts the browser process; the      *)
(* execute_script call that follows is a WebDriver command and can raise.  *)
(* Both callers call get_driver before their try statement.                *)
(***************************************************************************)
ListingRows == [row : Catalogue, state : {"ok", "short", "raises"}]

\* a listing page of one row more than the slice rows[:20] takes, all rows
\* well-formed but the one at position badAt (none at 0), which fails as how
LongListing(badAt, how) ==
    [rendered |-> TRUE,
     rows |-> [k \in 1..(ListLimit + 1) |->
                  [row |-> CHOOSE r \in Catalogue : r.url = ((k - 1) % Cardinality(Catalogue)) + 1,
                   state |-> IF k = badAt THEN how ELSE "ok"]]]

LongListings == {LongListing(badAt, how) : badAt \in 0..(ListLimit + 1),
                                           how \in {"short", "raises"}}

Listings == {NoListing} \cup
            {[rendered |-> TRUE, rows |-> r] : r \in SeqsUpTo(ListingRows, MaxListing)} \cup
            LongListings

Distinct(s) == \A i, j \in 1..Len(s) : i # j => s[i] # s[j]

\* what the multiselect of the UI can hand to process_batch_downloads
Selections == {s \in SeqsUpTo(Handles, MaxBatch) : s # <<>> /\ Distinct(s)}

\* the locals both operations start with
Fresh(sel, lst) ==
    /\ runs' = runs + 1
    /\ open' = open + 1
    /\ authed' = FALSE
    /\ logins' = 0
    /\ loginFailed' = "none"
    /\ selected_sessions' = sel
    /\ idx' = 1
    /\ master_df' = <<>>
    /\ warnings' = <<>>
    /\ errors' = <<>>
    /\ result' = NoResult
    /\ outcome' = [i \in 1..Len(sel) |-> "none"]
    /\ readFile' = [i \in 1..Len(sel) |-> NoFile]
    /\ listing' = lst
    /\ UNCHANGED <<downloads, pending>>

\* fetch_session_list up to webdriver.Chrome(...) inside get_driver
StartFetch ==
    /\ pc = "idle"
    /\ runs < MaxRuns
    /\ Fresh(<<>>, NoListing)
    /\ op' = "fetch"
    /\ pc' = "f_script"
    /\ UNCHANGED cleanVars

\* process_batch_downloads up to webdriver.Chrome(...) inside get_driver
StartBatch ==
    /\ pc = "idle"
    /\ runs < MaxRuns
    /\ \E sel \in Selections : Fresh(sel, NoListing)
    /\ op' = "batch"
    /\ pc' = "b_script"
    /\ UNCHANGED cleanVars

\* execute_script returned: get_driver returns the driver, the try is entered
ScriptOk ==
    /\ pc' = (IF pc = "f_script" THEN "f_login" ELSE "b_login")
    /\ UNCHANGED <<open, result>>

\* execute_script raised: the exception leaves get_driver and its caller
ScriptRaises ==
    /\ pc' = "idle"
    /\ result' = [kind |-> "raised", val |-> <<>>]
    /\ UNCHANGED open

\* the rest of get_driver, after the browser was created
GetDriverScript ==
    /\ pc \in {"f_script", "b_script"}
    /\ (ScriptOk \/ ScriptRaises)
    /\ UNCHANGED <<op, runs, authed, logins, loginFailed, selected_sessions, idx, downloads,
                   pending, master_df, warnings, errors, outcome, readFile, listing>>
    /\ UNCHANGED cleanVars

(***************************************************************************)
(* login_to_flightscope.  It returns when the browser is not, or no longer,*)
(* on the login page, and raises otherwise: the name field never appears,  *)
(* the submit control is not found, the URL does not change within the     *)
(* wait or still holds wp-login, or the first navigation fails.            *)
(***************************************************************************)
LoginReturns == {"already", "redirected"}
AuthFailures == {"no_fields", "no_submit", "stuck"}
LoginRaises == AuthFailures \cup {"navigation"}

\* a login that is tried again after a failure
LoginStepRetries(how) ==
    /\ logins' = logins + 1
    /\ IF how \in LoginReturns
       THEN /\ authed' = TRUE
            /\ loginFailed' = loginFailed
            /\ pc' = (IF pc = "f_login" THEN "f_get" ELSE "b_loop")
       ELSE /\ authed' = authed
            /\ loginFailed' = how
            /\ pc' = pc

\* a login whose failure is swallowed: the operation goes on to navigate
LoginStepSwallows(how) ==
    /\ logins' = logins + 1
    /\ authed' = (how \in LoginReturns)
    /\ loginFailed' = (IF how \in LoginReturns THEN loginFailed ELSE how)
    /\ pc' = (IF pc = "f_login" THEN "f_get" ELSE "b_loop")

LoginStep(how) ==
    /\ logins' = logins + 1
    /\ IF how \in LoginReturns
       THEN /\ authed' = TRUE
            /\ loginFailed' = loginFailed
            /\ pc' = (IF pc = "f_login" THEN "f_get" ELSE "b_loop")
       ELSE /\ authed' = authed
            /\ loginFailed' = how
            /\ pc' = (IF pc = "f_login" THEN "f_except" ELSE "b_except")

login_to_flightscope ==
    /\ pc \in {"f_login", "b_login"}
    /\ \E how \in LoginReturns \cup LoginRaises : LoginStep(how)
    /\ UNCHANGED <<op, runs, open, selected_sessions, idx, downloads, pending, master_df,
                   warnings, errors, result, outcome, readFile, listing>>
    /\ UNCHANGED cleanVars

(***************************************************************************)
(* fetch_session_list.                                                     *)
(***************************************************************************)
RECURSIVE ExtractRowsStopAtFailure(_)
\* the loop leaving at the first row that fails
ExtractRowsStopAtFailure(rows) ==
    IF rows = <<>> \/ Head(rows).state # "ok" THEN <<>>
    ELSE <<SessionHandle(Head(rows).row)>> \o ExtractRowsStopAtFailure(Tail(rows))

RECURSIVE ExtractRows(_)
\* the for loop over rows[:20]: a row with more than 4 cells and a link is
\* appended, any other row is passed over
ExtractRows(rows) ==
    IF rows = <<>> THEN <<>>
    ELSE (IF Head(rows).state = "ok" THEN <<SessionHandle(Head(rows).row)>> ELSE <<>>)
         \o ExtractRows(Tail(rows))

\* WebDriverWait.until(presence_of_all_elements_located(...)) returns the
\* elements found once there is at least one, and raises at the timeout
\* while there is none
RowsPresent(lst) == lst.rendered /\ lst.rows # <<>>

FetchDriverVars == <<op, runs, open, authed, logins, loginFailed, selected_sessions, idx,
                     downloads, pending, master_df, warnings, outcome, readFile>>

\* driver.get of the sessions page
FetchNavigate ==
    /\ pc = "f_get"
    /\ \E raised \in BOOLEAN : pc' = (IF raised THEN "f_except" ELSE "f_wait")
    /\ UNCHANGED <<FetchDriverVars, listing, errors, result>>
    /\ UNCHANGED cleanVars

\* rows = wait.until(...), the extraction loop and return sessions, against
\* what the site shows during the wait
WaitForRows(lst) ==
    /\ listing' = lst
    /\ IF RowsPresent(lst)
       THEN /\ result' = [kind |-> "list",
                          val |-> ExtractRows(SubSeq(lst.rows, 1,
                                                     Min(ListLimit, Len(lst.rows))))]
            /\ pc' = "f_finally"
       ELSE /\ result' = result
            /\ pc' = "f_except"

FetchRows ==
    /\ pc = "f_wait"
    /\ \E lst \in Listings : WaitForRows(lst)
    /\ UNCHANGED <<FetchDriverVars, errors>>
    /\ UNCHANGED cleanVars

\* except Exception: st.error(...); return []
FetchExcept ==
    /\ pc = "f_except"
    /\ errors' = Append(errors, "Error fetching list")
    /\ result' = [kind |-> "list", val |-> <<>>]
    /\ pc' = "f_finally"
    /\ UNCHANGED <<FetchDriverVars, listing>>
    /\ UNCHANGED cleanVars

\* driver.quit(): the browser ends, and with it its unfinished downloads;
\* what is left in DOWNLOAD_DIR stays there for the next operation
Quit ==
    /\ open' = open - 1
    /\ authed' = FALSE
    /\ pending' = {}
    /\ downloads' = [i \in 1..Len(downloads) |-> StaleFile]

\* finally: driver.quit()
FetchFinally ==
    /\ pc = "f_finally"
    /\ Quit
    /\ pc' = "idle"
    /\ UNCHANGED <<op, runs, logins, loginFailed, selected_sessions, idx, master_df, warnings,
                   errors, result, outcome, readFile, listing>>
    /\ UNCHANGED cleanVars

(***************************************************************************)
(* process_batch_downloads.                                                *)
(***************************************************************************)
InBatch == pc \in {"b_login", "b_loop", "b_get", "b_export", "b_files", "b_except",
                   "b_finally"}

\* the browser finishes a download it was asked for
DownloadArrives ==
    /\ InBatch
    /\ \E p \in pending :
          /\ pending' = pending \ {p}
          /\ downloads' = Append(downloads, [src |-> p.sess, n |-> p.n])
    /\ UNCHANGED <<pc, op, runs, open, authed, logins, loginFailed, selected_sessions, idx,
                   master_df, warnings, errors, result, outcome, readFile, listing>>
    /\ UNCHANGED cleanVars

\* for f in os.listdir(DOWNLOAD_DIR): try os.remove(...) except: pass
\* (keep: the files whose removal raised)
ClearDownloads(keep) == downloads' = SelectIdx(downloads, keep, 1)

\* the head of one iteration: the labels, the status line, the clearing
BatchClear ==
    /\ pc = "b_loop"
    /\ idx <= Len(selected_sessions)
    /\ \E keep \in SUBSET (1..Len(downloads)) : ClearDownloads(keep)
    /\ pc' = "b_get"
    /\ UNCHANGED <<op, runs, open, authed, logins, loginFailed, selected_sessions, idx, pending,
                   master_df, warnings, errors, result, outcome, readFile, listing>>
    /\ UNCHANGED cleanVars

\* driver.get(session_url), then the best-effort page-size control, whose
\* failure is swallowed and changes nothing here
BatchNavigate ==
    /\ pc = "b_get"
    /\ \E raised \in BOOLEAN : pc' = (IF raised THEN "b_except" ELSE "b_export")
    /\ UNCHANGED <<op, runs, open, authed, logins, loginFailed, selected_sessions, idx,
                   downloads, pending, master_df, warnings, errors, result, outcome,
                   readFile, listing>>
    /\ UNCHANGED cleanVars

Warning(kind, i) == [kind |-> kind, label |-> selected_sessions[i].display, at |-> i]

\* a per-session failure that is raised to the handler of the run
SkipSessionAborts(kind) ==
    /\ warnings' = Append(warnings, Warning(kind, idx))
    /\ outcome' = [outcome EXCEPT ![idx] = kind]
    /\ idx' = idx
    /\ pc' = "b_except"

\* a per-session failure that is passed over without a warning
SkipSessionSilent(kind) ==
    /\ warnings' = warnings
    /\ outcome' = [outcome EXCEPT ![idx] = kind]
    /\ idx' = idx + 1
    /\ pc' = "b_loop"

\* st.warning(...); continue
SkipSession(kind) ==
    /\ warnings' = Append(warnings, Warning(kind, idx))
    /\ outcome' = [outcome EXCEPT ![idx] = kind]
    /\ idx' = idx + 1
    /\ pc' = "b_loop"

\* the export control: found and clicked, or the except branch
BatchExport ==
    /\ pc = "b_export"
    /\ \/ /\ pending' = pending \cup {[sess |-> idx,
                                        n |-> ExportRows(selected_sessions[idx].url)]}
          /\ pc' = "b_files"
          /\ UNCHANGED <<warnings, outcome, idx>>
       \/ /\ SkipSession("no_export")
          /\ UNCHANGED pending
    /\ UNCHANGED <<op, runs, open, authed, logins, loginFailed, selected_sessions, downloads,
                   master_df, errors, result, readFile, listing>>
    /\ UNCHANGED cleanVars

\* pd.read_csv(latest_file) with the two tag columns added
TaggedRows(file, session) ==
    [k \in 1..file.n |-> [Session_Date |-> SessionDate(session),
                          Session_Name |-> session.display,
                          src |-> file.src,
                          k |-> k]]

\* a merge that puts the new rows first
MergePrepends(table, rows) == rows \o table

\* pd.concat([master_df, temp_df], ignore_index=True)
Merge(table, rows) == table \o rows

\* max(files, key=os.path.getctime)
LatestFile(files) == files[Len(files)]

\* after time.sleep(5): the listing of DOWNLOAD_DIR, the choice of the
\* latest file, the read and the merge, up to the end of the iteration
BatchCollect ==
    /\ pc = "b_files"
    /\ IF downloads = <<>>
       THEN /\ SkipSession("timeout")
            /\ UNCHANGED <<master_df, readFile>>
       ELSE /\ readFile' = [readFile EXCEPT ![idx] = LatestFile(downloads)]
            /\ \/ /\ master_df' = Merge(master_df,
                                       TaggedRows(LatestFile(downloads),
                                                  selected_sessions[idx]))
                  /\ outcome' = [outcome EXCEPT ![idx] = "ok"]
                  /\ UNCHANGED warnings
               \/ /\ warnings' = Append(warnings, [kind |-> "csv", label |-> <<>>, at |-> idx])
                  /\ outcome' = [outcome EXCEPT ![idx] = "csv"]
                  /\ UNCHANGED master_df
            /\ idx' = idx + 1
            /\ pc' = "b_loop"
    /\ UNCHANGED <<op, runs, open, authed, logins, loginFailed, selected_sessions, downloads,
                   pending, errors, result, listing>>
    /\ UNCHANGED cleanVars

\* return master_df
BatchReturn ==
    /\ pc = "b_loop"
    /\ idx > Len(selected_sessions)
    /\ result' = [kind |-> "table", val |-> master_df]
    /\ pc' = "b_finally"
    /\ UNCHANGED <<op, runs, open, authed, logins, loginFailed, selected_sessions, idx,
                   downloads, pending, master_df, warnings, errors, outcome, readFile,
                   listing>>
    /\ UNCHANGED cleanVars

\* except Exception: st.error(...); return pd.DataFrame()
BatchExcept ==
    /\ pc = "b_except"
    /\ errors' = Append(errors, "Batch Error")
    /\ result' = [kind |-> "table", val |-> <<>>]
    /\ pc' = "b_finally"
    /\ UNCHANGED <<op, runs, open, authed, logins, loginFailed, selected_sessions, idx,
                   downloads, pending, master_df, warnings, outcome, readFile, listing>>
    /\ UNCHANGED cleanVars

\* finally: driver.quit(); status_text.empty()
BatchFinally ==
    /\ pc = "b_finally"
    /\ Quit
    /\ pc' = "idle"
    /\ UNCHANGED <<op, runs, logins, loginFailed, selected_sessions, idx, master_df, warnings,
                   errors, result, outcome, readFile, listing>>
    /\ UNCHANGED cleanVars

Next ==
    \/ StartFetch
    \/ StartBatch
    \/ GetDriverScript
    \/ login_to_flightscope
    \/ FetchNavigate
    \/ FetchRows
    \/ FetchExcept
    \/ FetchFinally
    \/ DownloadArrives
    \/ BatchClear
    \/ BatchNavigate
    \/ BatchExport
    \/ BatchCollect
    \/ BatchReturn
    \/ BatchExcept
    \/ BatchFinally

Spec == Init /\ [][Next]_vars

\* a step of the thread that runs the operation: every statement returns,
\* raises or times out, so the thread always takes its next step; when a
\* download lands, if ever, is the browser's affair
ProgramStep ==
    \/ GetDriverScript
    \/ login_to_flightscope
    \/ FetchNavigate
    \/ FetchRows
    \/ FetchExcept
    \/ FetchFinally
    \/ BatchClear
    \/ BatchNavigate
    \/ BatchExport
    \/ BatchCollect
    \/ BatchReturn
    \/ BatchExcept
    \/ BatchFinally

\* an operation started in a process that has run none before
FirstFetch == runs = 0 /\ StartFetch

FirstBatch == runs = 0 /\ StartBatch

NextLive ==
    \/ FirstFetch
    \/ FirstBatch
    \/ DownloadArrives
    \/ ProgramStep

\* one operation from its call to its end, under the fairness of its thread
SpecLive == Init /\ [][NextLive]_vars /\ WF_vars(ProgramStep)

(***************************************************************************)
(* Properties of process_batch_downloads and fetch_session_list.           *)
(***************************************************************************)
Batch == 1..Len(selected_sessions)

\* the rows of a merged table that carry the labels of session i
RowsTagged(table, i) ==
    SelectSeq(table, LAMBDA r : r.Session_Name = selected_sessions[i].display)

\* the warnings recorded while session i was processed
WarningsAt(i) == {k \in 1..Len(warnings) : warnings[k].at = i}

C1_State ==
    \A i \in Batch :
        outcome[i] = "no_export" =>
            /\ RowsTagged(master_df, i) = <<>>
            /\ Cardinality(WarningsAt(i)) = 1
            /\ \A k \in WarningsAt(i) : warnings[k] = Warning("no_export", i)
            /\ \A j \in Batch \ {i} :
                  outcome[j] = "ok" =>
                      RowsTagged(master_df, j) = TaggedRows(readFile[j], selected_sessions[j])

C1_Step ==
    (pc = "b_export" /\ outcome'[idx] = "no_export") =>
        /\ pc' = "b_loop"
        /\ idx' = idx + 1
        /\ master_df' = master_df
        /\ errors' = errors
        /\ result' = result
        /\ open' = open

\* C1: a session whose export control cannot be located does not abort the
\* batch: the loop goes on with the next session, nothing is reported as an
\* error, the failing session has no row in the merged table and exactly one
\* warning, and every other session that was read has its rows in the merged
\* table.
C1_ExportFailureIsolated == [](C1_State) /\ [][C1_Step]_vars

\* a batch where the export control of session 1 was not found and session
\* 2, after it, put rows in the merged table
C1_Witness ==
    /\ Len(selected_sessions) = 2
    /\ outcome[1] = "no_export"
    /\ outcome[2] = "ok"
    /\ RowsTagged(master_df, 2) # <<>>
    /\ result = [kind |-> "table", val |-> master_df]

\* C2: the file chosen as latest and read for a session is the file that
\* session's own export trigger produced.
C2_ReadsOwnExport ==
    \A i \in Batch : readFile[i] # NoFile => readFile[i].src = i

\* C3: no operation ends with a browser instance it created still open.
C3_BrowserReleased == pc = "idle" => open = 0

\* C4: login is attempted at most once per operation, and after an
\* authentication failure it was attempted exactly once, the operation is in
\* its handler or over, and in a batch no session was processed or exported,
\* the merged table is empty, and once the handler ran the result is the empty
\* table with one error message reported.
C4_AuthFailureTerminal ==
    /\ logins <= 1
    /\ loginFailed \in AuthFailures =>
          /\ logins = 1
          /\ ~authed
          /\ pc \in {"f_except", "f_finally", "b_except", "b_finally", "idle"}
          /\ op = "batch" =>
                /\ idx = 1
                /\ \A i \in Batch : outcome[i] = "none" /\ readFile[i] = NoFile
                /\ pending = {}
                /\ master_df = <<>>
                /\ warnings = <<>>
                /\ pc \in {"b_finally", "idle"} =>
                      /\ result = [kind |-> "table", val |-> <<>>]
                      /\ errors = <<"Batch Error">>

\* a batch that ended after the login page never redirected
C4_Witness ==
    /\ op = "batch"
    /\ loginFailed = "stuck"
    /\ pc = "idle"
    /\ result = [kind |-> "table", val |-> <<>>]
    /\ errors # <<>>

RECURSIVE RowsRead(_)
\* the sum of the row counts of the tables read for sessions 1..i
RowsRead(i) ==
    IF i = 0 THEN 0
    ELSE RowsRead(i - 1) + (IF outcome[i] = "ok" THEN readFile[i].n ELSE 0)

\* C8: the merged table process_batch_downloads returns has as many rows
\* as the tables read have together, and every row carries the date label of
\* the session whose export it came from.
C8_MergedRowsAndTags ==
    (op = "batch" /\ result.kind = "table") =>
        /\ Len(result.val) = RowsRead(Len(selected_sessions))
        /\ \A k \in 1..Len(result.val) :
              \E i \in Batch :
                  /\ result.val[k].src = i
                  /\ result.val[k].Session_Date = selected_sessions[i].date_only

\* C9: when the listing renders with zero rows fetch_session_list returns
\* the empty list and reports no error, and an error about the listing is
\* reported only when the listing never rendered.
C9_EmptyListingNoError ==
    (op = "fetch" /\ pc \in {"f_finally", "idle"}) =>
        /\ (listing.rendered /\ listing.rows = <<>>) =>
              (errors = <<>> /\ result = [kind |-> "list", val |-> <<>>])
        /\ errors # <<>> => ~listing.rendered

C10_State ==
    \A i \in Batch :
        outcome[i] = "timeout" =>
            /\ RowsTagged(master_df, i) = <<>>
            /\ readFile[i] = NoFile
            /\ Cardinality(WarningsAt(i)) = 1
            /\ \A k \in WarningsAt(i) : warnings[k] = Warning("timeout", i)

C10_Step ==
    (pc = "b_files" /\ downloads = <<>> /\ pc' # pc) =>
        /\ outcome' = [outcome EXCEPT ![idx] = "timeout"]
        /\ warnings' = Append(warnings, Warning("timeout", idx))
        /\ master_df' = master_df
        /\ errors' = errors
        /\ idx' = idx + 1
        /\ pc' = "b_loop"

\* C10: when the export was triggered and the download directory is empty
\* at the end of the wait, the session is skipped with one warning and no
\* row, and the loop goes on with the next session.
C10_DownloadTimeoutSkips == [](C10_State) /\ [][C10_Step]_vars

\* a batch where the file of session 1 had not landed at the end of the
\* wait and session 2 was processed after it
C10_Witness ==
    /\ Len(selected_sessions) = 2
    /\ outcome[1] = "timeout"
    /\ outcome[2] \in {"ok", "csv", "no_export", "timeout"}
    /\ RowsTagged(master_df, 1) = <<>>

\* C11: every session of a batch that failed (export control not found,
\* download timeout, CSV read error) has exactly one warning, that warning
\* carries the display label of the failing session, and no error is
\* reported for it.
C11_FailuresReportedWithLabel ==
    \A i \in Batch :
        outcome[i] \in {"no_export", "timeout", "csv"} =>
            /\ Cardinality(WarningsAt(i)) = 1
            /\ \A k \in WarningsAt(i) :
                  /\ warnings[k].kind = outcome[i]
                  /\ warnings[k].label = selected_sessions[i].display
            /\ (pc \in {"b_loop", "b_get", "b_export", "b_files"}) => errors = <<>>

\* the positions, in listing order, of the rows among the first ListLimit
\* of the listing that have their cells and their link
C12_Kept == SelectSeq([k \in 1..Min(ListLimit, Len(listing.rows)) |-> k],
                      LAMBDA k : listing.rows[k].state = "ok")

\* C12: when the listing has rows, fetch_session_list returns, in listing
\* order, the handle of every well-formed row among the first 20 rows and of
\* no other row: at most 20 handles, a failing row passed over without error
\* or warning and without hiding any later row among those 20.
C12_FirstTwentyRows ==
    (op = "fetch" /\ result.kind = "list" /\ RowsPresent(listing)) =>
        /\ Len(result.val) <= ListLimit
        /\ Len(result.val) = Len(C12_Kept)
        /\ \A k \in 1..Len(C12_Kept) :
              /\ C12_Kept[k] <= ListLimit
              /\ result.val[k] = SessionHandle(listing.rows[C12_Kept[k]].row)
        /\ errors = <<>>
        /\ warnings = <<>>

\* a listing of 21 rows whose first row fails: the 19 rows after it up to
\* the 20th are returned, the 21st is not
C12_Witness ==
    /\ op = "fetch"
    /\ result.kind = "list"
    /\ Len(listing.rows) = ListLimit + 1
    /\ listing.rows[1].state = "raises"
    /\ Len(result.val) = ListLimit - 1
    /\ result.val[1] = SessionHandle(listing.rows[2].row)
    /\ result.val[ListLimit - 1] = SessionHandle(listing.rows[ListLimit].row)

C13_State ==
    pc \in {"f_get", "f_wait", "b_loop", "b_get", "b_export", "b_files"} =>
        /\ open >= 1
        /\ authed
        /\ logins = 1
        /\ loginFailed = "none"

C13_Step ==
    /\ (pc \in {"f_get", "b_get"} /\ pc' # pc) => (authed /\ logins = 1)
    /\ (pc = "b_export" /\ outcome'[idx] = "no_export") =>
          /\ authed'
          /\ logins' = logins
          /\ open' = open
          /\ idx' = idx + 1
          /\ pc' = "b_loop"

\* C13: the listing page and every detail page are navigated to only in a
\* browser where login_to_flightscope was called once and returned, and a
\* failed export leaves the run authenticated in the same browser, with no
\* further login, at the next session of the loop.
C13_LoginBeforeNavigation == [](C13_State) /\ [][C13_Step]_vars

\* a batch on the detail page of session 2 after the export of session 1
\* failed, still on its one login
C13_Witness ==
    /\ op = "batch"
    /\ pc = "b_export"
    /\ idx = 2
    /\ outcome[1] = "no_export"
    /\ authed
    /\ logins = 1

\* C17: a call of process_batch_downloads ends, and ends with a table
\* returned, the merged one or an empty one.
C17_BatchTerminatesWithTable ==
    (op = "batch" /\ pc = "b_script") ~>
        (op = "batch" /\ pc = "idle" /\ result.kind = "table")

\* C18: at most one browser instance is open at any moment.
C18_AtMostOneBrowser == open <= 1

\* the position in the selection of the session a merged row is tagged with
C19_SessionOf(row) == CHOOSE i \in Batch : selected_sessions[i].display = row.Session_Name

C19_State ==
    /\ \A p, q \in 1..Len(master_df) :
          p < q => C19_SessionOf(master_df[p]) <= C19_SessionOf(master_df[q])
    /\ \A i \in Batch :
          /\ outcome[i] # "none" => i < idx
          /\ Len(RowsTagged(master_df, i)) = (IF outcome[i] = "ok" THEN readFile[i].n ELSE 0)

C19_Step ==
    pc # "idle" =>
        /\ idx' \in {idx, idx + 1}
        /\ \A i \in Batch : outcome[i] # "none" => outcome'[i] = outcome[i]
        /\ Len(master_df') >= Len(master_df)
        /\ SubSeq(master_df', 1, Len(master_df)) = master_df

\* C19: the sessions are processed one at a time in selection order, each at
\* most once, and in the merged table every row of a session precedes every
\* row of a session selected after it.
C19_SelectionOrder == [](C19_State) /\ [][C19_Step]_vars

\* a batch of two sessions that ended with rows of both in the merged table
C19_Witness ==
    /\ op = "batch"
    /\ pc = "idle"
    /\ Len(selected_sessions) = 2
    /\ outcome = <<"ok", "ok">>
    /\ RowsTagged(master_df, 1) # <<>>
    /\ RowsTagged(master_df, 2) # <<>>
    /\ result = [kind |-> "table", val |-> master_df]

(***************************************************************************)
(* parse_directional on every short text over an alphabet that has digits, *)
(* both suffix letters, the sign, the dot, a blank and another letter, and *)
(* on cells that are not text.                                             *)
(***************************************************************************)
MaxLen == 4

Alphabet == {"0", "1", "5", ".", "-", " ", "L", "R", "x"}

\* the texts of the spec's examples
Examples ==
    { <<"1", "2", ".", "5", " ", "L">>, <<"1", "2", ".", "5", " ", "R">>,
      <<"4", "8", ".", "3">>, <<"g", "a", "r", "b", "a", "g", "e">> }

ParseInputs == {Str(s) : s \in SeqsUpTo(Alphabet, MaxLen) \cup Examples}
               \cup {Num(5, 0), Num(0 - 15, 1), NaN}

\* the driver is not in use
DriverIdle ==
    /\ DriverInit
    /\ downloads = <<>>

InitParse ==
    /\ DriverIdle
    /\ val \in ParseInputs
    /\ parsed = None
    /\ df = EmptyTable
    /\ cleaned = NotCleaned
    /\ recleaned = NotCleaned

ApplyParse ==
    /\ parsed = None
    /\ parsed' = parse_directional(val)
    /\ UNCHANGED <<val, df, cleaned, recleaned>>
    /\ UNCHANGED driverVars

SpecParse == InitParse /\ [][ApplyParse]_vars

(***************************************************************************)
(* clean_flightscope_data on every small table over three columns: the     *)
(* discriminator, one directional column and one other column.             *)
(***************************************************************************)
MaxTableRows == 2

ColumnNames == {"Shot", "Spin Axis (deg)", "Carry (yds)"}

ShotCells == SummaryMarkers \cup {Str(<<"1">>), Str(<<"a", "v", "g">>)}

DirCells == { Str(<<"5", "L">>), Str(<<" ", "1", "-", "5">>), Str(<<"x">>), Num(5, 0), NaN }

OtherCells == {Str(<<"5", "L">>), Str(<<"2", "1", "0">>)}

CellsOf(c) ==
    CASE c = "Shot" -> ShotCells
      [] c = "Spin Axis (deg)" -> DirCells
      [] OTHER -> OtherCells

RowsOver(cols) ==
    {r \in [cols -> ShotCells \cup DirCells \cup OtherCells] : \A c \in cols : r[c] \in CellsOf(c)}

Tables(cols) ==
    {[cols |-> cols, rows |-> rows] : rows \in SeqsUpTo(RowsOver(cols), MaxTableRows)}

InitClean ==
    /\ DriverIdle
    /\ val = None
    /\ parsed = None
    /\ \E cols \in SUBSET ColumnNames : df \in Tables(cols)
    /\ cleaned = NotCleaned
    /\ recleaned = NotCleaned

ApplyClean ==
    /\ ~cleaned.done
    /\ cleaned' = [done |-> TRUE, table |-> clean_flightscope_data(df)]
    /\ UNCHANGED <<val, parsed, df, recleaned>>
    /\ UNCHANGED driverVars

\* clean_flightscope_data called on the table it returned
ApplyCleanAgain ==
    /\ cleaned.done
    /\ ~recleaned.done
    /\ recleaned' = [done |-> TRUE, table |-> clean_flightscope_data(cleaned.table)]
    /\ UNCHANGED <<val, parsed, df, cleaned>>
    /\ UNCHANGED driverVars

NextClean == ApplyClean \/ ApplyCleanAgain

SpecClean == InitClean /\ [][NextClean]_vars

(***************************************************************************)
(* Properties of parse_directional (under SpecParse).                      *)
(***************************************************************************)
Abs(x) == IF x.m < 0 THEN Neg(x) ELSE x

\* C6 as stated: the text left after stripping all characters except
\* digits, '.' and '-' is parsed; with an L suffix the result is the negation
\* of that number, with an R suffix that number kept positive, with neither
\* that number.
C6_AsClaimed ==
    (val.t = "str" /\ parsed # None) =>
        LET stripped == Strip(val.s)
            text == ReSubKeep(stripped, Digits \cup {".", "-"})
        IN  FloatOk(text) =>
                IF EndsWith(stripped, "L") THEN parsed = Neg(Float(text))
                ELSE IF EndsWith(stripped, "R") THEN parsed \in {Float(text), Abs(Float(text))}
                ELSE parsed = Float(text)

\* C6 as amended: the text left after stripping all characters except
\* digits, '.' and '-' is parsed; with an L suffix the result is the negation
\* of that number's magnitude, with an R suffix that magnitude, with neither
\* suffix that number.  "12.5 L" gives -12.5, "12.5 R" gives 12.5 and "48.3"
\* gives 48.3.
C6_SuffixGivesSign ==
    (val.t = "str" /\ parsed # None) =>
        LET stripped == Strip(val.s)
            text == ReSubKeep(stripped, Digits \cup {".", "-"})
        IN  /\ FloatOk(text) =>
                  IF EndsWith(stripped, "L") THEN parsed = Neg(Abs(Float(text)))
                  ELSE IF EndsWith(stripped, "R") THEN parsed = Abs(Float(text))
                  ELSE parsed = Float(text)
            /\ val.s = <<"1", "2", ".", "5", " ", "L">> => parsed = Num(0 - 125, 1)
            /\ val.s = <<"1", "2", ".", "5", " ", "R">> => parsed = Num(125, 1)
            /\ val.s = <<"4", "8", ".", "3">> => parsed = Num(483, 1)

\* a left value written with a minus sign has been parsed to a negative
\* number
C6_Witness ==
    /\ val = Str(<<"-", "5", "L">>)
    /\ parsed = Num(0 - 5, 0)

(***************************************************************************)
(* Properties of clean_flightscope_data (under SpecClean).                 *)
(***************************************************************************)
Directional(table) == table.cols \cap directional_cols

\* C5: after clean_flightscope_data no text remains in a directional
\* column: every text has become a finite number, 0.0 when it does not parse.
C5_DirectionalAllNumeric ==
    cleaned.done =>
        \A i \in 1..Len(cleaned.table.rows) :
            \A c \in Directional(cleaned.table) : cleaned.table.rows[i][c].t # "str"

C7_Summary ==
    { <<"A", "v", "g">>, <<"D", "e", "v">>, <<"A", "v", "e", "r", "a", "g", "e">>,
      <<"D", "e", "v", "i", "a", "t", "i", "o", "n">> }

C7_IsSummary(row) == row["Shot"].t = "str" /\ row["Shot"].s \in C7_Summary

RECURSIVE C7_Kept(_)
\* the positions, from i on, of the input rows that are no summary rows
C7_Kept(i) ==
    IF i > Len(df.rows) THEN <<>>
    ELSE (IF C7_IsSummary(df.rows[i]) THEN <<>> ELSE <<i>>) \o C7_Kept(i + 1)

\* output row k is input row at[k], with its directional cells parsed
C7_SameRows(at) ==
    /\ Len(cleaned.table.rows) = Len(at)
    /\ \A k \in 1..Len(at) :
          \A c \in df.cols :
              cleaned.table.rows[k][c] =
                  IF c \in directional_cols THEN parse_directional(df.rows[at[k]][c])
                  ELSE df.rows[at[k]][c]

\* C7: the rows of the output are the input rows whose 'Shot' value is
\* none of Avg, Dev, Average, Deviation, all of them and in input order; a
\* table without a 'Shot' column keeps every row.
C7_RowFilterExact ==
    cleaned.done =>
        IF "Shot" \in df.cols
        THEN /\ C7_SameRows(C7_Kept(1))
             /\ \A k \in 1..Len(cleaned.table.rows) : ~C7_IsSummary(cleaned.table.rows[k])
        ELSE C7_SameRows([k \in 1..Len(df.rows) |-> k])

\* a table whose first row is a summary row and whose second is a shot has
\* been cleaned to the second row alone
C7_Witness ==
    /\ cleaned.done
    /\ "Shot" \in df.cols
    /\ Len(df.rows) = 2
    /\ df.rows[1]["Shot"] = Str(<<"D", "e", "v", "i", "a", "t", "i", "o", "n">>)
    /\ df.rows[2]["Shot"] = Str(<<"1">>)
    /\ Len(cleaned.table.rows) = 1
    /\ cleaned.table.rows[1]["Shot"] = Str(<<"1">>)

\* C14: cleaning a cleaned table gives that cleaned table again.
C14_Idempotent == recleaned.done => recleaned.table = cleaned.table

\* a table that lost a summary row and had a directional text parsed at its
\* first cleaning, and was cleaned again
C14_Witness ==
    /\ recleaned.done
    /\ Len(cleaned.table.rows) < Len(df.rows)
    /\ \E i \in 1..Len(df.rows), k \in 1..Len(cleaned.table.rows) :
          /\ "Spin Axis (deg)" \in df.cols
          /\ df.rows[i]["Spin Axis (deg)"] = Str(<<"5", "L">>)
          /\ cleaned.table.rows[k]["Spin Axis (deg)"] = Num(0 - 5, 0)

\* pandas reads the cell as a number
C15_ParsesAsNumber(v) == v.t \in {"num", "nan"} \/ (v.t = "str" /\ FloatOk(Strip(v.s)))

\* C15: in the cleaned table, a column other than the identifier 'Shot' in
\* which every value parses as a number holds numbers only, not text.
C15_NumericColumnsCoerced ==
    cleaned.done =>
        \A c \in cleaned.table.cols \ {"Shot"} :
            (\A k \in 1..Len(cleaned.table.rows) : C15_ParsesAsNumber(cleaned.table.rows[k][c]))
                => (\A k \in 1..Len(cleaned.table.rows) : cleaned.table.rows[k][c].t # "str")

\* C16: the cleaned table has the columns of the input table, in every row
\* too, and no more rows than the input table.
C16_ColumnsKeptRowsNotAdded ==
    cleaned.done =>
        /\ cleaned.table.cols = df.cols
        /\ \A k \in 1..Len(cleaned.table.rows) : DOMAIN cleaned.table.rows[k] = df.cols
        /\ Len(cleaned.table.rows) <= Len(df.rows)

\* a table of all three columns and two rows cleaned to a table of the same
\* three columns and one row
C16_Witness ==
    /\ cleaned.done
    /\ df.cols = ColumnNames
    /\ Len(df.rows) = 2
    /\ cleaned.table.cols = ColumnNames
    /\ Len(cleaned.table.rows) = 1

\* the input positions of the retained rows
C20_Retained == IF "Shot" \in df.cols THEN C7_Kept(1) ELSE [k \in 1..Len(df.rows) |-> k]

\* C20: in every retained row, a cell of a column that is not one of the
\* seven directional columns is the input cell, and so is a cell of a
\* directional column whose input cell is not a string.
C20_OtherCellsUnchanged ==
    cleaned.done =>
        /\ Len(cleaned.table.rows) = Len(C20_Retained)
        /\ \A k \in 1..Len(cleaned.table.rows) :
              \A c \in df.cols :
                  (c \notin directional_cols \/ df.rows[C20_Retained[k]][c].t # "str") =>
                      cleaned.table.rows[k][c] = df.rows[C20_Retained[k]][c]

\* a cleaned table with a retained row whose 'Carry (yds)' text ends in L
\* and whose directional cell is a number, after a removed summary row
C20_Witness ==
    /\ cleaned.done
    /\ df.cols = ColumnNames
    /\ Len(df.rows) = 2
    /\ df.rows[1]["Shot"] = Str(<<"A", "v", "g">>)
    /\ df.rows[2]["Carry (yds)"] = Str(<<"5", "L">>)
    /\ df.rows[2]["Spin Axis (deg)"] = Num(5, 0)
    /\ Len(cleaned.table.rows) = 1
    /\ cleaned.table.rows[1]["Carry (yds)"] = Str(<<"5", "L">>)
    /\ cleaned.table.rows[1]["Spin Axis (deg)"] = Num(5, 0)

====
